---------------------------- MODULE Spec2Model ----------------------------
(***************************************************************************)
(* A model of the WebAuthn verification core of webauthn_verifier:         *)
(*   - verifier::webauthn_verify            (src/verifier/src/lib.rs)      *)
(*   - the client-data extractors           (pass-webauthn runtime_helpers)*)
(*   - the Attestation / Assertion envelopes and the Credential            *)
(*                                          (pass-webauthn runtime_impls)  *)
(*   - the host that registers devices and authenticates users with them.  *)
(*                                                                         *)
(* Byte strings are sequences of numbers 0..255.  The cryptographic        *)
(* primitives the code calls (SHA-256, P-256 ECDSA, DER) are modelled as   *)
(* ideal primitives over byte strings: the digest is a fixed 32-byte       *)
(* function of its whole input, a signature is a deterministic function of *)
(* the private key and the message, and a public key verifies exactly the  *)
(* signatures its private key makes (and their high-S twins).              *)
(***************************************************************************)
EXTENDS Integers, Sequences, FiniteSets, TLC

VARIABLES
    vcall,      \* the most recent call of webauthn_verify: inputs and result
    block,      \* host: System::block_number(), the Challenger's context
    devices,    \* host: the registered devices, a set of Credential records
    sessions,   \* host: the device ids that hold a session
    call,       \* host: the most recent register / authenticate call
    xcall       \* the client data given to the extractors, and their answers

vars == <<vcall, block, devices, sessions, call, xcall>>

(***************************************************************************)
(* Bounds of the model.                                                    *)
(***************************************************************************)
NumKeys == 2        \* private keys (authenticators) the model draws from
MaxRetries == 1     \* times a call is made again with the same input
MaxBlock == 2       \* block numbers (contexts) run from 1 to MaxBlock

(***************************************************************************)
(* Sizes fixed by the program.                                             *)
(***************************************************************************)
HashLen == 32       \* [u8; 32], the SHA-256 digest
FixedLen == 32      \* [u8; 32]: Challenge, AuthorityId, DeviceId
DerKeyLen == 91     \* DEREncodedPublicKey = [u8; 91]

(***************************************************************************)
(* Bytes and byte strings.                                                 *)
(***************************************************************************)
Pow2(b) == 2 ^ b

\* v with bit b flipped (v XOR 2^b).
FlipBit(v, b) == IF (v \div Pow2(b)) % 2 = 1 THEN v - Pow2(b) ELSE v + Pow2(b)

\* s with the byte at position p replaced by v.
SetAt(s, p, v) == [i \in 1..Len(s) |-> IF i = p THEN v ELSE s[i]]

Zeros(n) == [i \in 1..n |-> 0]

Drop(s, n) == SubSeq(s, n + 1, Len(s))

Take(s, n) == SubSeq(s, 1, n)

(***************************************************************************)
(* The ideal digest.  Two polynomials in the bytes of the input over the   *)
(* prime field of 257 elements (bases 3 and 5, leading coefficient 1, so   *)
(* that the length is part of the value) are spread over n lanes; lane i   *)
(* is a cubic in i, which no input makes vanish on every lane.             *)
(***************************************************************************)
RECURSIVE PowMod(_, _)
PowMod(b, k) ==
    IF k = 0 THEN 1
    ELSE LET h == PowMod(b, k \div 2)
         IN (h * h * (IF k % 2 = 1 THEN b ELSE 1)) % 257

\* sum of (x[j] + 1) * base^(hi - j) for j in lo..hi, modulo 257
RECURSIVE Poly(_, _, _, _)
Poly(x, base, lo, hi) ==
    IF lo > hi THEN 0
    ELSE IF lo = hi THEN (x[lo] + 1) % 257
    ELSE LET mid == (lo + hi) \div 2
         IN (Poly(x, base, lo, mid) * PowMod(base, hi - mid)
             + Poly(x, base, mid + 1, hi)) % 257

LaneAcc(x, base) == (PowMod(base, Len(x)) + Poly(x, base, 1, Len(x))) % 257

\* n lanes of x, each reduced to 0..m-1
Lanes(x, n, m) ==
    LET a == LaneAcc(x, 3)
        b == LaneAcc(x, 5)
    IN [i \in 1..n |-> ((a * i + b * i * i + i * i * i + 1) % 257) % m]

\* Sha256::digest(data).into(): [u8; 32]
Sha256_digest(data) == Lanes(data, HashLen, 256)

(***************************************************************************)
(* P-256 keys.  A private key is a number 1..NumKeys; its public point is  *)
(* (X, Y) with Y the curve's ordinate of X.                                *)
(***************************************************************************)
PrivateKeys == 1..NumKeys

CurveY(x) == Lanes(<<89>> \o x, 32, 256)

PointX(sk) == Lanes(<<88, sk>>, 32, 256)

KeyPairs == [sk \in PrivateKeys |-> [x |-> PointX(sk), y |-> CurveY(PointX(sk))]]

\* private_key.verifying_key().to_encoded_point(false)
verifying_key(sk) == KeyPairs[sk]

OnCurve(x, y) == y = CurveY(x)

\* The DER SubjectPublicKeyInfo header of an uncompressed P-256 key:
\* SEQUENCE(89) { SEQUENCE(19) { OID id-ecPublicKey, OID prime256v1 },
\*                BIT STRING(66) { 0 unused bits, ...
SpkiHeader ==
    <<48, 89, 48, 19, 6, 7, 42, 134, 72, 206, 61, 2, 1,
      6, 8, 42, 134, 72, 206, 61, 3, 1, 7, 3, 66, 0>>

\* public_key_der_from_cose_key(&public_key_cose): header, tag 4, X, Y
public_key_der(sk) ==
    SpkiHeader \o <<4>> \o verifying_key(sk).x \o verifying_key(sk).y

\* DecodePublicKey::from_public_key_der(credential_public_key_der)
from_public_key_der(der) ==
    IF /\ Len(der) = DerKeyLen
       /\ Take(der, Len(SpkiHeader)) = SpkiHeader
       /\ der[Len(SpkiHeader) + 1] = 4
       /\ OnCurve(SubSeq(der, 28, 59), SubSeq(der, 60, 91))
    THEN [ok |-> TRUE, x |-> SubSeq(der, 28, 59), y |-> SubSeq(der, 60, 91)]
    ELSE [ok |-> FALSE, x |-> <<>>, y |-> <<>>]

(***************************************************************************)
(* ECDSA signatures (r, s), both 32-byte scalars, and their DER encoding   *)
(* SEQUENCE { INTEGER r, INTEGER s }.                                      *)
(***************************************************************************)
ScalarOf(tag, sk, digest) ==
    LET l == Lanes(<<tag, sk>> \o digest, 32, 127)
    IN [i \in 1..32 |-> l[i] + 1]

\* private_key.sign(&message): deterministic (RFC 6979)
sign(sk, message) ==
    LET digest == Sha256_digest(message)
    IN [r |-> ScalarOf(1, sk, digest), s |-> ScalarOf(2, sk, digest)]

\* n - s: the other scalar that verifies with the same r
NegScalar(s) == [i \in 1..32 |-> 128 - s[i]]

RECURSIVE StripZeros(_)
StripZeros(v) ==
    IF Len(v) > 1 /\ v[1] = 0 THEN StripZeros(Tail(v)) ELSE v

\* The content of a DER INTEGER holding the unsigned big-endian number v.
DerUInt(v) ==
    LET m == StripZeros(v) IN IF m[1] >= 128 THEN <<0>> \o m ELSE m

\* signature.to_der()
to_der(sig) ==
    LET r == DerUInt(sig.r)
        s == DerUInt(sig.s)
    IN <<48, Len(r) + Len(s) + 4>> \o <<2, Len(r)>> \o r \o <<2, Len(s)>> \o s

SigErr == [ok |-> FALSE, r |-> <<>>, s |-> <<>>]

\* A canonical DER INTEGER content that holds a positive number of at most
\* 32 bytes.
DerUIntOk(c) ==
    /\ Len(c) >= 1
    /\ c[1] < 128
    /\ (Len(c) > 1 /\ c[1] = 0) => c[2] >= 128
    /\ Len(StripZeros(c)) <= 32
    /\ StripZeros(c) # <<0>>

LeftPad(v, n) == Zeros(n - Len(v)) \o v

\* DerSignature::try_from that does not compare the outer length with the
\* number of bytes that follow it
DerSignature_try_from_lenient(der) ==
    IF Len(der) < 8 \/ der[1] # 48 \/ der[3] # 2
    THEN SigErr
    ELSE LET lr == der[4] IN
      IF 4 + lr + 2 > Len(der) \/ der[4 + lr + 1] # 2 THEN SigErr
      ELSE LET ls == der[4 + lr + 2]
               rc == SubSeq(der, 5, 4 + lr)
               sc == SubSeq(der, 4 + lr + 3, Len(der))
           IN IF ls # Len(sc) \/ ~DerUIntOk(rc) \/ ~DerUIntOk(sc) THEN SigErr
              ELSE [ok |-> TRUE, r |-> LeftPad(StripZeros(rc), 32),
                                 s |-> LeftPad(StripZeros(sc), 32)]

\* DerSignature::try_from(signature_der)
DerSignature_try_from(der) ==
    IF Len(der) < 8 \/ der[1] # 48 \/ der[2] # Len(der) - 2 \/ der[3] # 2
    THEN SigErr
    ELSE LET lr == der[4] IN
      IF 4 + lr + 2 > Len(der) \/ der[4 + lr + 1] # 2 THEN SigErr
      ELSE LET ls == der[4 + lr + 2]
               rc == SubSeq(der, 5, 4 + lr)
               sc == SubSeq(der, 4 + lr + 3, Len(der))
           IN IF ls # Len(sc) \/ ~DerUIntOk(rc) \/ ~DerUIntOk(sc) THEN SigErr
              ELSE [ok |-> TRUE, r |-> LeftPad(StripZeros(rc), 32),
                                 s |-> LeftPad(StripZeros(sc), 32)]

\* verifying_key.verify(&message, &signature)
ecdsa_verify(key, message, sig) ==
    \E sk \in PrivateKeys :
        /\ key.x = verifying_key(sk).x
        /\ key.y = verifying_key(sk).y
        /\ LET good == sign(sk, message)
           IN /\ sig.r = good.r
              /\ sig.s = good.s \/ sig.s = NegScalar(good.s)

(***************************************************************************)
(* verifier::webauthn_verify                                               *)
(***************************************************************************)
\* [authenticator_data, &client_data_hash].concat(), with a separator byte
concat_message_separated(authenticator_data, client_data_hash) ==
    authenticator_data \o <<0>> \o client_data_hash

\* [authenticator_data, &client_data_hash].concat()
concat_message(authenticator_data, client_data_hash) ==
    authenticator_data \o client_data_hash

\* the message webauthn_verify checks the signature over
verify_message(authenticator_data, client_data_json) ==
    concat_message(authenticator_data, Sha256_digest(client_data_json))

\* a verifier that reports a signature it cannot parse as one that does not
\* verify
webauthn_verify_merged_errors(authenticator_data, client_data_json, signature_der, credential_public_key_der) ==
    LET message == verify_message(authenticator_data, client_data_json)
        public_key == from_public_key_der(credential_public_key_der)
        signature == DerSignature_try_from(signature_der)
    IN IF ~public_key.ok THEN "ExtractPublicKey"
       ELSE IF signature.ok /\ ecdsa_verify(public_key, message, signature)
       THEN "Ok"
       ELSE "VerifySignature"

\* a verifier that parses the signature before it decodes the public key
webauthn_verify_signature_first(authenticator_data, client_data_json, signature_der, credential_public_key_der) ==
    LET message == verify_message(authenticator_data, client_data_json)
        public_key == from_public_key_der(credential_public_key_der)
        signature == DerSignature_try_from(signature_der)
    IN IF ~signature.ok THEN "ParseSignature"
       ELSE IF ~public_key.ok THEN "ExtractPublicKey"
       ELSE IF ecdsa_verify(public_key, message, signature) THEN "Ok"
       ELSE "VerifySignature"

\* a verifier that keeps state between calls: once it has accepted a call it
\* refuses the next one, as a verifier that counts signatures would
webauthn_verify_refuses_replay(authenticator_data, client_data_json, signature_der, credential_public_key_der) ==
    LET message == verify_message(authenticator_data, client_data_json)
        public_key == from_public_key_der(credential_public_key_der)
        signature == DerSignature_try_from(signature_der)
    IN IF ~public_key.ok THEN "ExtractPublicKey"
       ELSE IF ~signature.ok THEN "ParseSignature"
       ELSE IF vcall.result # "Ok" /\ ecdsa_verify(public_key, message, signature)
       THEN "Ok"
       ELSE "VerifySignature"

webauthn_verify(authenticator_data, client_data_json, signature_der, credential_public_key_der) ==
    LET message == verify_message(authenticator_data, client_data_json)
        public_key == from_public_key_der(credential_public_key_der)
        signature == DerSignature_try_from(signature_der)
    IN IF ~public_key.ok THEN "ExtractPublicKey"
       ELSE IF ~signature.ok THEN "ParseSignature"
       ELSE IF ecdsa_verify(public_key, message, signature) THEN "Ok"
       ELSE "VerifySignature"

(***************************************************************************)
(* Text.  A string is its sequence of UTF-8 bytes.                         *)
(***************************************************************************)
None == [some |-> FALSE, v |-> <<>>]

Some(x) == [some |-> TRUE, v |-> x]

Min(S) == CHOOSE m \in S : \A n \in S : m <= n

Max(S) == CHOOSE m \in S : \A n \in S : m >= n

\* the number of bytes of the UTF-8 sequence that byte b starts; 0 if none
LeadLen(b) ==
    IF b < 128 THEN 1
    ELSE IF b \in 194..223 THEN 2
    ELSE IF b \in 224..239 THEN 3
    ELSE IF b \in 240..244 THEN 4
    ELSE 0

Cont(s, i) == i >= 1 /\ i <= Len(s) /\ s[i] \in 128..191

\* the second byte of a sequence, where the lead byte narrows its range
SecondOk(lead, b) ==
    CASE lead = 224 -> b >= 160
      [] lead = 237 -> b <= 159
      [] lead = 240 -> b >= 144
      [] lead = 244 -> b <= 143
      [] OTHER -> TRUE

\* String::from_utf8(json).ok() is Some
from_utf8_ok(s) ==
    \A i \in 1..Len(s) :
        LET n == LeadLen(s[i]) IN
        IF n = 0
        THEN /\ Cont(s, i)
             /\ \E k \in 1..3 :
                   /\ i - k >= 1
                   /\ LeadLen(s[i - k]) > k
                   /\ \A m \in 1..(k - 1) : Cont(s, i - m)
        ELSE /\ \A k \in 1..(n - 1) : Cont(s, i + k)
             /\ n > 1 => SecondOk(s[i], s[i + 1])

\* s.contains(key)
contains(s, key) ==
    \E i \in 1..(Len(s) - Len(key) + 1) : SubSeq(s, i, i + Len(key) - 1) = key

Positions(s, c) == {i \in 1..Len(s) : s[i] = c}

\* s.split_once(c): the text before and after the first c
split_once(s, c) ==
    IF Positions(s, c) = {} THEN None
    ELSE LET p == Min(Positions(s, c))
         IN Some(<<SubSeq(s, 1, p - 1), SubSeq(s, p + 1, Len(s))>>)

\* json.split(","): the segments, each named by the position it starts at
SegmentStarts(s) == {1} \cup {c + 1 : c \in Positions(s, 44)}

Segment(s, a) ==
    LET later == {c \in Positions(s, 44) : c >= a}
    IN SubSeq(s, a, IF later = {} THEN Len(s) ELSE Min(later) - 1)

\* v.trim_matches(|c| c == ' ' || c == '"')
trim_matches(v) ==
    LET keep == {i \in 1..Len(v) : v[i] \notin {32, 34}}
    IN IF keep = {} THEN <<>> ELSE SubSeq(v, Min(keep), Max(keep))

\* a scan that takes the first segment that holds the key, and gives up
\* when that segment has no ':'
json_value_key_only(json, key) ==
    LET found == {a \in SegmentStarts(json) : contains(Segment(json, a), key)}
    IN IF found = {} THEN None
       ELSE IF ~split_once(Segment(json, Min(found)), 58).some THEN None
       ELSE Some(trim_matches(split_once(Segment(json, Min(found)), 58).v[2]))

\* json.split(",").find_map(|kv| kv.contains(key).then_some(
\*     kv.split_once(":")?.1)).map(|v| v.trim_matches(..)): the segments
\* without ':' are passed over, and so are those without the key
json_value(json, key) ==
    LET found == {a \in SegmentStarts(json) :
                     /\ split_once(Segment(json, a), 58).some
                     /\ contains(Segment(json, a), key)}
    IN IF found = {} THEN None
       ELSE Some(trim_matches(split_once(Segment(json, Min(found)), 58).v[2]))

\* a decoding that keeps the last 32 bytes of a longer value
decode_trailing_zero_last(value) ==
    [i \in 1..FixedLen |->
        IF Len(value) > FixedLen THEN value[Len(value) - FixedLen + i]
        ELSE IF i <= Len(value) THEN value[i] ELSE 0]

\* Decode::decode(&mut TrailingZeroInput::new(value)) for [u8; 32]
decode_trailing_zero(value) ==
    [i \in 1..FixedLen |-> IF i <= Len(value) THEN value[i] ELSE 0]

\* the strings a closure is applied to
Str == Seq(0..255)

\* a get_from_json_then_map that answers None when the mapped value is not
\* of 32 bytes
get_from_json_then_map_exact_length(json, key, map) ==
    IF ~from_utf8_ok(json) THEN None
    ELSE LET value == json_value(json, key) IN
      IF ~value.some THEN None
      ELSE LET mapped == map[value.v] IN
        IF ~mapped.some \/ Len(mapped.v) # FixedLen THEN None
        ELSE Some(mapped.v)

\* get_from_json_then_map(json, key, map): map is the closure, a function
\* on strings
get_from_json_then_map(json, key, map) ==
    IF ~from_utf8_ok(json) THEN None
    ELSE LET value == json_value(json, key) IN
      IF ~value.some THEN None
      ELSE LET mapped == map[value.v] IN
        IF ~mapped.some THEN None
        ELSE Some(decode_trailing_zero(mapped.v))

(***************************************************************************)
(* base64url without padding (BASE64_URL_SAFE_NO_PAD).                     *)
(***************************************************************************)
\* the 6-bit value of a character of the standard alphabet ('+', '/'), or -1
B64Value_standard(c) ==
    IF c \in 65..90 THEN c - 65
    ELSE IF c \in 97..122 THEN c - 71
    ELSE IF c \in 48..57 THEN c + 4
    ELSE IF c = 43 THEN 62
    ELSE IF c = 47 THEN 63
    ELSE -1

\* the 6-bit value of a character of the URL-safe alphabet, or -1
B64Value(c) ==
    IF c \in 65..90 THEN c - 65
    ELSE IF c \in 97..122 THEN c - 71
    ELSE IF c \in 48..57 THEN c + 4
    ELSE IF c = 45 THEN 62
    ELSE IF c = 95 THEN 63
    ELSE -1

B64Char(v) ==
    IF v < 26 THEN v + 65
    ELSE IF v < 52 THEN v + 71
    ELSE IF v < 62 THEN v - 4
    ELSE IF v = 62 THEN 45
    ELSE 95

At0(s, i) == IF i <= Len(s) THEN s[i] ELSE 0

\* base64::decode_engine(text, &BASE64_URL_SAFE_NO_PAD).ok()
base64_decode(text) ==
    LET n == Len(text)
        v == [i \in 1..n |-> B64Value(text[i])]
        spare == IF n % 4 = 2 THEN 16 ELSE IF n % 4 = 3 THEN 4 ELSE 1
    IN IF \/ n % 4 = 1
          \/ \E i \in 1..n : v[i] < 0
          \/ n > 0 /\ v[n] % spare # 0
       THEN None
       ELSE Some([k \in 1..((n * 6) \div 8) |->
                LET q == (8 * (k - 1)) \div 6 + 1
                    r == (8 * (k - 1)) % 6
                IN ((v[q] * 64 + v[q + 1]) \div Pow2(4 - r)) % 256])

\* encoding::base64url(bytes)
base64_encode(bytes) ==
    LET n == Len(bytes)
    IN [q \in 1..((n * 8 + 5) \div 6) |->
          LET k == (6 * (q - 1)) \div 8 + 1
              r == (6 * (q - 1)) % 8
          IN B64Char(((bytes[k] * 256 + At0(bytes, k + 1)) \div Pow2(10 - r)) % 64)]


(***************************************************************************)
(* Url::parse(origin).ok()?.domain(), for origins without percent escapes  *)
(* or non-ASCII characters: the host of an absolute URL when it is a       *)
(* domain name, lower-cased; None when the text is no URL with a host, or  *)
(* the host is an IP address.                                              *)
(***************************************************************************)
Lower(c) == IF c \in 65..90 THEN c + 32 ELSE c

IsAlpha(c) == Lower(c) \in 97..122

IsDigit(c) == c \in 48..57

\* the position of the ':' that ends the scheme, or 0
SchemeEnd(s) ==
    LET colons == Positions(s, 58)
    IN IF colons = {} THEN 0
       ELSE LET p == Min(colons)
            IN IF /\ p > 1
                  /\ IsAlpha(s[1])
                  /\ \A i \in 2..(p - 1) :
                        IsAlpha(s[i]) \/ IsDigit(s[i]) \/ s[i] \in {43, 45, 46}
               THEN p ELSE 0

\* http, https, ws, wss, ftp
SpecialSchemes ==
    { <<104, 116, 116, 112>>, <<104, 116, 116, 112, 115>>, <<119, 115>>,
      <<119, 115, 115>>, <<102, 116, 112>> }

\* the characters a host may not hold
ForbiddenHost == {0, 9, 10, 13, 32, 35, 37, 47, 58, 60, 62, 63, 64, 91, 92, 93, 94, 124}

\* the host and port of the URL s whose scheme ends at p, or None
UrlAuthority(s, p) ==
    LET scheme == [i \in 1..(p - 1) |-> Lower(s[i])]
        special == scheme \in SpecialSchemes
        slash == IF special THEN {47, 92} ELSE {47}
        body == {i \in (p + 1)..Len(s) : s[i] \notin slash}
        start == IF special
                 THEN (IF body = {} THEN Len(s) + 1 ELSE Min(body))
                 ELSE p + 3
        stops == {i \in start..Len(s) : s[i] \in slash \cup {63, 35}}
        end == IF stops = {} THEN Len(s) ELSE Min(stops) - 1
    IN IF ~special /\ SubSeq(s, p + 1, p + 2) # <<47, 47>> THEN None
       ELSE Some(SubSeq(s, start, end))

\* the host of an authority: what follows the last '@', before the port
UrlHost(authority) ==
    LET ats == Positions(authority, 64)
        hostport == IF ats = {} THEN authority
                    ELSE SubSeq(authority, Max(ats) + 1, Len(authority))
        colons == Positions(hostport, 58)
        host == IF colons = {} THEN hostport
                ELSE SubSeq(hostport, 1, Max(colons) - 1)
        port == IF colons = {} THEN <<>>
                ELSE SubSeq(hostport, Max(colons) + 1, Len(hostport))
    IN IF \/ host = <<>>
          \/ \E i \in 1..Len(host) : host[i] \in ForbiddenHost
          \/ \E i \in 1..Len(port) : ~IsDigit(port[i])
          \/ Len(port) > 5
       THEN None
       ELSE Some([i \in 1..Len(host) |-> Lower(host[i])])

\* an IPv4 address: the last label of the host is a number
IsIpv4(host) ==
    LET dots == {i \in Positions(host, 46) : i < Len(host)}
        last == SubSeq(host, IF dots = {} THEN 1 ELSE Max(dots) + 1, Len(host))
        digits == IF last # <<>> /\ last[Len(last)] = 46
                  THEN SubSeq(last, 1, Len(last) - 1) ELSE last
    IN /\ digits # <<>>
       /\ \/ \A i \in 1..Len(digits) : IsDigit(digits[i])
          \/ /\ Len(digits) >= 2
             /\ digits[1] = 48
             /\ Lower(digits[2]) = 120
             /\ \A i \in 3..Len(digits) :
                   IsDigit(digits[i]) \/ Lower(digits[i]) \in 97..102

\* Url::parse(origin).ok()?.domain()
url_domain(origin) ==
    LET p == SchemeEnd(origin) IN
    IF p = 0 THEN None
    ELSE LET authority == UrlAuthority(origin, p) IN
      IF ~authority.some THEN None
      ELSE LET host == UrlHost(authority.v) IN
        IF ~host.some \/ IsIpv4(host.v) THEN None ELSE host

(***************************************************************************)
(* The extractors of runtime_helpers.                                      *)
(***************************************************************************)
KeyChallenge == <<99, 104, 97, 108, 108, 101, 110, 103, 101>>   \* "challenge"

KeyOrigin == <<111, 114, 105, 103, 105, 110>>                   \* "origin"

\* |challenge| base64::decode_engine(challenge.as_bytes(), ..).ok()
map_challenge(challenge) == base64_decode(challenge)

\* a map that answers the whole domain
map_origin_domain(origin) == url_domain(origin)

\* a map that splits the origin as it is written, without parsing it
map_origin_unparsed(origin) ==
    LET labels == split_once(origin, 46) IN
    IF ~labels.some THEN None ELSE Some(labels.v[1])

\* |origin| Url::parse(&origin).ok()?.domain()?.split_once(".")
\*              .map(|(authority_id, _)| authority_id.as_bytes().to_vec())
map_origin(origin) ==
    LET domain == url_domain(origin) IN
    IF ~domain.some THEN None
    ELSE LET labels == split_once(domain.v, 46) IN
      IF ~labels.some THEN None ELSE Some(labels.v[1])

find_challenge_from_client_data(client_data) ==
    get_from_json_then_map(client_data, KeyChallenge,
                           [challenge \in Str |-> map_challenge(challenge)])

find_authority_id_from_client_data(client_data) ==
    get_from_json_then_map(client_data, KeyOrigin,
                           [origin \in Str |-> map_origin(origin)])

(***************************************************************************)
(* The test runtime: the Challenger, the host's authority, the user.       *)
(***************************************************************************)
\* ctx.to_le_bytes() of a u64 below 65536
to_le_bytes(n) ==
    [i \in 1..8 |-> IF i = 1 THEN n % 256 ELSE IF i = 2 THEN (n \div 256) % 256 ELSE 0]

\* sp_io::hashing::blake2_256, <Test as Config>::Hashing::hash
blake2_256(data) == Lanes(<<66>> \o data, FixedLen, 256)

\* BlockChallenger::generate(ctx)
generate(ctx) == blake2_256(to_le_bytes(ctx))

\* Challenge::default(), AuthorityId::default()
Default == Zeros(FixedLen)

NamePassWeb == <<112, 97, 115, 115, 95, 119, 101, 98>>          \* "pass_web"

NameSvc == <<115, 118, 99>>                                     \* "svc"

\* AuthorityFromPalletId<PassPalletId>::get(), PalletId(*b"pass_web")
HostAuthority == decode_trailing_zero(NamePassWeb)

\* the authority of another relying party, encode("svc")
SvcAuthority == decode_trailing_zero(NameSvc)

\* const USER: HashedUserId = s("the_user")
USER == decode_trailing_zero(<<116, 104, 101, 95, 117, 115, 101, 114>>)

(***************************************************************************)
(* The test client WebAuthnClient: an authenticator that holds private key *)
(* k, behind a client at some origin.                                      *)
(***************************************************************************)
\* "https://pass_web.pass.int"
OriginPassWeb ==
    <<104, 116, 116, 112, 115, 58, 47, 47, 112, 97, 115, 115, 95, 119, 101,
      98, 46, 112, 97, 115, 115, 46, 105, 110, 116>>

\* "https://svc.example.org"
OriginSvc ==
    <<104, 116, 116, 112, 115, 58, 47, 47, 115, 118, 99, 46, 101, 120, 97,
      109, 112, 108, 101, 46, 111, 114, 103>>

TypeCreate ==
    <<119, 101, 98, 97, 117, 116, 104, 110, 46, 99, 114, 101, 97, 116, 101>>

TypeGet == <<119, 101, 98, 97, 117, 116, 104, 110, 46, 103, 101, 116>>

\* The client data the client serialises:
\* {"type":"<ty>","<key>":"<base64url(challenge)>","origin":"<origin>","crossOrigin":false}
\* where key is "challenge"
ClientDataWithKey(ty, key, challenge, origin) ==
    <<123, 34, 116, 121, 112, 101, 34, 58, 34>> \o ty
    \o <<34, 44, 34>> \o key \o <<34, 58, 34>> \o base64_encode(challenge)
    \o <<34, 44, 34, 111, 114, 105, 103, 105, 110, 34, 58, 34>> \o origin
    \o <<34, 44, 34, 99, 114, 111, 115, 115, 79, 114, 105, 103, 105, 110, 34,
         58, 102, 97, 108, 115, 101, 125>>

ClientDataJson(ty, challenge, origin) ==
    ClientDataWithKey(ty, KeyChallenge, challenge, origin)

\* result.raw_id: the credential id authenticator k makes
credential_id(k) == Lanes(<<67, k>>, 16, 256)

\* the authenticator data: SHA-256 of the RP id, flags, signature counter
AuthenticatorData(origin, flags) ==
    Sha256_digest(url_domain(origin).v) \o <<flags, 0, 0, 0, 0>>

\* WebAuthnClient::create_credential_sync
create_credential_sync(k, origin, challenge) ==
    [credential_id |-> credential_id(k),
     authenticator_data |-> AuthenticatorData(origin, 69) \o credential_id(k),
     client_data |-> ClientDataJson(TypeCreate, challenge, origin),
     public_key |-> public_key_der(k)]

\* the response of authenticator k to a request: it signs
\* authenticator_data || SHA-256(client_data)
AuthenticatorResponse(k, authenticator_data, client_data) ==
    [user_handle |-> USER,
     authenticator_data |-> authenticator_data,
     client_data |-> client_data,
     signature |-> to_der(sign(k, authenticator_data
                                  \o Sha256_digest(client_data)))]

\* WebAuthnClient::authenticate_credential_sync
authenticate_credential_sync(k, origin, challenge) ==
    AuthenticatorResponse(k, AuthenticatorData(origin, 5),
                          ClientDataJson(TypeGet, challenge, origin))

\* Attestation { meta: AttestationMeta { .. }, .. } of a made credential
AttestationOf(made, context, authority_id) ==
    [meta |-> [authority_id |-> authority_id,
               device_id |-> blake2_256(made.credential_id),
               context |-> context],
     authenticator_data |-> made.authenticator_data,
     client_data |-> made.client_data,
     public_key |-> made.public_key]

\* WebAuthnClient::attestation(user_id, context, authority_id)
client_attestation(k, origin, context, authority_id) ==
    AttestationOf(create_credential_sync(k, origin, generate(context)),
                  context, authority_id)

\* Assertion { meta: AssertionMeta { .. }, .. } of an authenticator's response
AssertionOf(made, context, authority_id) ==
    [meta |-> [authority_id |-> authority_id,
               user_id |-> decode_trailing_zero(made.user_handle),
               context |-> context],
     authenticator_data |-> made.authenticator_data,
     client_data |-> made.client_data,
     signature |-> made.signature]

\* WebAuthnClient::assertion / credential(credential_id, context, authority_id)
client_assertion(k, origin, context, authority_id) ==
    AssertionOf(authenticate_credential_sync(k, origin, generate(context)),
                context, authority_id)

(***************************************************************************)
(* The envelopes: runtime_impls of Attestation, Assertion and Credential.  *)
(***************************************************************************)
unwrap_or_default(option) == IF option.some THEN option.v ELSE Default

\* a challenge that falls back on the challenge expected for the context
Attestation_challenge_fail_open(self) ==
    IF find_challenge_from_client_data(self.client_data).some
    THEN find_challenge_from_client_data(self.client_data).v
    ELSE generate(self.meta.context)

\* Attestation::challenge
Attestation_challenge(self) ==
    unwrap_or_default(find_challenge_from_client_data(self.client_data))

\* an is_valid that answers false to every attestation
Attestation_is_valid_never(self) == FALSE

\* DeviceChallengeResponse::is_valid for Attestation
Attestation_is_valid(self) == TRUE

\* DeviceChallengeResponse::used_challenge for Attestation
Attestation_used_challenge(self) ==
    <<self.meta.context, Attestation_challenge(self)>>

\* DeviceChallengeResponse::authority for Attestation
Attestation_authority(self) == self.meta.authority_id

\* DeviceChallengeResponse::device_id for Attestation
Attestation_device_id(self) == self.meta.device_id

\* Assertion::challenge
Assertion_challenge(self) ==
    unwrap_or_default(find_challenge_from_client_data(self.client_data))

\* UserChallengeResponse::is_valid for Assertion
Assertion_is_valid(self) == TRUE

\* UserChallengeResponse::used_challenge for Assertion
Assertion_used_challenge(self) ==
    <<self.meta.context, Assertion_challenge(self)>>

\* UserChallengeResponse::authority for Assertion
Assertion_authority(self) ==
    unwrap_or_default(find_authority_id_from_client_data(self.client_data))

\* UserChallengeResponse::user_id for Assertion
Assertion_user_id(self) == self.meta.user_id

\* a device that stores the authenticator data in place of the public key
Device_from_authenticator_data(value) ==
    [device_id |-> Attestation_device_id(value),
     public_key |-> value.authenticator_data]

\* a device that stores the key of the first authenticator, whatever key
\* the attestation carries
Device_from_first_key(value) ==
    [device_id |-> Attestation_device_id(value), public_key |-> public_key_der(1)]

\* From<Attestation<CxOf<Ch>>> for Device<Ch, A>
Device_from(value) ==
    [device_id |-> Attestation_device_id(value), public_key |-> value.public_key]

\* a verify that answers Some(()) to every assertion
Credential_verify_always(self, credential) == TRUE

\* a verify that accepts the signature of any authenticator, whatever key
\* is stored
Credential_verify_any_key(self, credential) ==
    \E k \in PrivateKeys :
        webauthn_verify(credential.authenticator_data, credential.client_data,
                        credential.signature, public_key_der(k)) = "Ok"

\* VerifyCredential::verify for Credential: Some(()) is TRUE, None is FALSE
Credential_verify(self, credential) ==
    webauthn_verify(credential.authenticator_data, credential.client_data,
                    credential.signature, self.public_key) = "Ok"

\* what the host reads from an attestation, and from an assertion
AttView(att) ==
    [valid |-> Attestation_is_valid(att),
     used |-> Attestation_used_challenge(att),
     authority |-> Attestation_authority(att),
     device_id |-> Attestation_device_id(att),
     device |-> Device_from(att)]

AsrtView(asrt) ==
    [valid |-> Assertion_is_valid(asrt),
     used |-> Assertion_used_challenge(asrt),
     authority |-> Assertion_authority(asrt),
     user_id |-> Assertion_user_id(asrt)]

(***************************************************************************)
(* Calls of webauthn_verify.  The caller of the verifier's tests signs     *)
(* authenticator_data || SHA-256(client_data_json) with a fresh key and    *)
(* hands over the DER signature and the DER public key; a tampered call    *)
(* changes one byte of one of the four inputs of such a call.              *)
(***************************************************************************)
\* b"example authenticator data"
ExampleAuthData ==
    <<101, 120, 97, 109, 112, 108, 101, 32, 97, 117, 116, 104, 101, 110,
      116, 105, 99, 97, 116, 111, 114, 32, 100, 97, 116, 97>>

\* {"challenge":"test-challenge","origin":"https://example.com","type":"webauthn.get"}
ExampleClientData ==
    <<123, 34, 99, 104, 97, 108, 108, 101, 110, 103, 101, 34, 58, 34, 116,
      101, 115, 116, 45, 99, 104, 97, 108, 108, 101, 110, 103, 101, 34, 44,
      34, 111, 114, 105, 103, 105, 110, 34, 58, 34, 104, 116, 116, 112, 115,
      58, 47, 47, 101, 120, 97, 109, 112, 108, 101, 46, 99, 111, 109, 34,
      44, 34, 116, 121, 112, 101, 34, 58, 34, 119, 101, 98, 97, 117, 116,
      104, 110, 46, 103, 101, 116, 34, 125>>

\* The calls the model starts from: authenticator data, client data, and
\* whether the signature carries s or its high twin n - s.
VerifyCases ==
    { [ad |-> ExampleAuthData, cd |-> ExampleClientData, highS |-> FALSE],
      [ad |-> <<>>, cd |-> <<123, 125>>, highS |-> TRUE],
      [ad |-> <<1, 0, 0>>, cd |-> <<>>, highS |-> FALSE] }

\* Step 5-6 of the tests: the message the caller signs, and its signature
test_message(authenticator_data, client_data_json) ==
    authenticator_data \o Sha256_digest(client_data_json)

test_signature(sk, authenticator_data, client_data_json, highS) ==
    LET sig == sign(sk, test_message(authenticator_data, client_data_json))
    IN to_der(IF highS THEN [r |-> sig.r, s |-> NegScalar(sig.s)] ELSE sig)

Fields == {"authenticator_data", "client_data", "signature", "public_key"}

\* The ways one byte is changed: one bit flipped, or all of them (^= 0xFF).
Tampers == {"bit0", "bit7", "xorFF"}

TamperByte(v, how) ==
    CASE how = "bit0" -> FlipBit(v, 0)
      [] how = "bit7" -> FlipBit(v, 7)
      [] how = "xorFF" -> 255 - v

TamperAt(s, p, how) == SetAt(s, p, TamperByte(s[p], how))

\* A call that has not been made yet: result "none"
VInput(ad, cd, sig, pk, sk) ==
    [authenticator_data |-> ad, client_data |-> cd, signature |-> sig,
     public_key |-> pk, result |-> "none", message |-> <<>>,
     signer |-> sk, tampered |-> "none", tries |-> 0, view |-> <<>>]

\* a call that takes the client data out of the envelope it is given
Answered_takes_client_data(in, tries) ==
    [in EXCEPT
        !.result = webauthn_verify(in.authenticator_data, in.client_data,
                                   in.signature, in.public_key),
        !.view = AsrtView([meta |-> [authority_id |-> Default, user_id |-> USER,
                                      context |-> 1],
                            authenticator_data |-> in.authenticator_data,
                            client_data |-> in.client_data,
                            signature |-> in.signature]),
        !.client_data = <<>>,
        !.tries = tries]

\* the call in is made: the verdict of webauthn_verify, and what is_valid,
\* used_challenge, authority and user_id answer for the Assertion that
\* carries the same bytes
Answered(in, tries) ==
    [in EXCEPT
        !.result = webauthn_verify(in.authenticator_data, in.client_data,
                                   in.signature, in.public_key),
        !.view = AsrtView([meta |-> [authority_id |-> Default, user_id |-> USER,
                                      context |-> 1],
                            authenticator_data |-> in.authenticator_data,
                            client_data |-> in.client_data,
                            signature |-> in.signature]),
        !.tries = tries]

\* test_verify_webauthn_response_with_generated_data: the call is made
VerifyGenerated ==
    /\ vcall.result = "none"
    /\ vcall' = Answered([vcall EXCEPT
                             !.message = verify_message(vcall.authenticator_data,
                                                        vcall.client_data)], 0)
    /\ UNCHANGED <<block, devices, sessions, call, xcall>>

\* test_verify_webauthn_response_with_invalid_signature, for any one byte of
\* any one input of the accepted call in vcall
VerifyTampered ==
    /\ vcall.tampered = "none"
    /\ vcall.result = "Ok"
    /\ vcall.tries = 0
    /\ \E field \in Fields, how \in Tampers :
         \E p \in 1..Len(vcall[field]) :
            /\ vcall' = Answered([vcall EXCEPT
                                     ![field] = TamperAt(vcall[field], p, how),
                                     !.tampered = field], 0)
            /\ UNCHANGED <<block, devices, sessions, call, xcall>>

\* a call whose signature has lost its SEQUENCE tag (0x30), and does not
\* parse any more, has one byte of its public key changed as well
VerifyTamperedBoth ==
    /\ vcall.tampered = "signature"
    /\ vcall.result = "ParseSignature"
    /\ vcall.signature[1] # 48
    /\ vcall.tries = 0
    /\ \E how \in Tampers :
         \E p \in 1..Len(vcall.public_key) :
            /\ vcall' = Answered([vcall EXCEPT
                                     !.public_key = TamperAt(vcall.public_key, p, how),
                                     !.tampered = "both"], 0)
            /\ UNCHANGED <<block, devices, sessions, call, xcall>>

\* the call in vcall is made again with the same bytes
VerifyRetry ==
    /\ vcall.result # "none"
    /\ vcall.tries < MaxRetries
    /\ vcall' = Answered(vcall, vcall.tries + 1)
    /\ UNCHANGED <<block, devices, sessions, call, xcall>>

\* the host has not been called
NoCall ==
    [op |-> "none", case |-> [k |-> 0, kind |-> "none", ctx |-> 0],
     device_id |-> <<>>, known |-> FALSE, step |-> "none", result |-> "none"]

\* the extractors have not been given anything
NoExtract ==
    [input |-> [order |-> "none", challenge |-> <<>>, origin |-> <<>>,
                defect |-> "none", at |-> 0],
     client_data |-> <<>>, asked |-> {}, challenge |-> None,
     authority |-> None]

InitVerify ==
    /\ \E sk \in PrivateKeys, c \in VerifyCases :
          vcall = VInput(c.ad, c.cd, test_signature(sk, c.ad, c.cd, c.highS),
                         public_key_der(sk), sk)
    /\ block = 1
    /\ devices = {}
    /\ sessions = {}
    /\ call = NoCall
    /\ xcall = NoExtract

NextVerify ==
    VerifyGenerated \/ VerifyTampered \/ VerifyTamperedBoth \/ VerifyRetry

SpecVerify == InitVerify /\ [][NextVerify]_vars

(***************************************************************************)
(* The proofs the host is handed.  A case names the authenticator k that   *)
(* made the proof, the block it was made at, and what kind of proof it is. *)
(***************************************************************************)
Contexts == 1..MaxBlock

\* a context other than ctx
OtherContext(ctx) == (ctx % MaxBlock) + 1

NameChellang == <<99, 104, 101, 108, 108, 97, 110, 103>>        \* "chellang"

\* client_data.replace(from, to)
RECURSIVE replace(_, _, _)
replace(s, from, to) ==
    LET hits == {i \in 1..(Len(s) - Len(from) + 1) :
                    SubSeq(s, i, i + Len(from) - 1) = from}
    IN IF hits = {} THEN s
       ELSE SubSeq(s, 1, Min(hits) - 1) \o to
            \o replace(SubSeq(s, Min(hits) + Len(from), Len(s)), from, to)

AttKinds ==
    {"valid", "renamed", "malformed", "svc", "forged_meta_svc", "bad_key",
     "other_context"}

AttCases == [k : PrivateKeys, kind : AttKinds, ctx : Contexts]

\* the origin of the client that makes the proof of a case
OriginOf(kind) ==
    IF kind \in {"svc", "forged_meta_svc", "flipped_svc"} THEN OriginSvc
    ELSE OriginPassWeb

\* the authority the client writes in the meta of the proof of a case
MetaAuthorityOf(kind) ==
    IF kind \in {"svc", "forged_meta", "flipped_svc"} THEN SvcAuthority
    ELSE HostAuthority

\* what a case changes in the attestation the client has made
AlteredAttestation(c, made) ==
    CASE c.kind \in {"valid", "svc", "forged_meta_svc"} -> made
      \* registration_fails_if_attestation_is_invalid
      [] c.kind = "renamed" ->
           [made EXCEPT !.client_data = replace(@, KeyChallenge, NameChellang)]
      \* the value of "challenge" made no base64url text: it starts with '*'
      [] c.kind = "malformed" ->
           [made EXCEPT !.client_data =
               replace(@, <<34>> \o KeyChallenge \o <<34, 58, 34>>,
                          <<34>> \o KeyChallenge \o <<34, 58, 34, 42>>)]
      \* the public key replaced by bytes that are no key
      [] c.kind = "bad_key" -> [made EXCEPT !.public_key = Zeros(DerKeyLen)]
      \* the meta naming another context than the challenge's
      [] c.kind = "other_context" ->
           [made EXCEPT !.meta.context = OtherContext(c.ctx)]

\* the Attestation of a case; "svc" is a proof for the relying party
\* svc.example.org, "forged_meta_svc" one made at svc.example.org whose
\* meta names the host's authority
AttEnv(c) ==
    AlteredAttestation(c, client_attestation(c.k, OriginOf(c.kind), c.ctx,
                                             MetaAuthorityOf(c.kind)))

AsrtKinds ==
    {"valid", "whoops", "flipped", "no_challenge", "svc", "forged_meta",
     "other_context", "flipped_svc"}

AsrtCases == [k : PrivateKeys, kind : AsrtKinds, ctx : Contexts]

\* the byte of the signature that the flipped cases change: one of r
FlipPosition == 10

\* the assertion signed again by authenticator k
Resigned(k, asrt) ==
    [asrt EXCEPT !.signature =
        to_der(sign(k, asrt.authenticator_data
                       \o Sha256_digest(asrt.client_data)))]

\* what a case changes in the assertion the client has made
AlteredAssertion(c, made) ==
    CASE c.kind \in {"valid", "svc", "forged_meta"} -> made
      \* authentication_fails_if_credentials_are_invalid
      [] c.kind = "whoops" ->
           [made EXCEPT !.signature = @ \o <<87, 104, 111, 111, 112, 115>>]
      [] c.kind \in {"flipped", "flipped_svc"} ->
           [made EXCEPT !.signature = TamperAt(@, FlipPosition, "bit0")]
      \* the challenge under another key, signed by the authenticator
      [] c.kind = "no_challenge" ->
           Resigned(c.k, [made EXCEPT
               !.client_data = replace(@, KeyChallenge, NameChellang)])
      [] c.kind = "other_context" ->
           [made EXCEPT !.meta.context = OtherContext(c.ctx)]

\* the Assertion of a case; "forged_meta" is made at the host's origin, its
\* meta naming another authority
AsrtEnv(c) ==
    AlteredAssertion(c, client_assertion(c.k, OriginOf(c.kind), c.ctx,
                                         MetaAuthorityOf(c.kind)))

(***************************************************************************)
(* What the host reads from a proof.  The tables hold, for every case, the *)
(* answers of the envelope of that case, and for every stored credential   *)
(* and every assertion the answer of Credential::verify.                   *)
(***************************************************************************)
\* the proof of every case
AttProofs == [c \in AttCases |-> AttEnv(c)] @@ <<>>

AsrtProofs == [c \in AsrtCases |-> AsrtEnv(c)] @@ <<>>

AttTable == [c \in AttCases |-> AttView(AttProofs[c])] @@ <<>>

AsrtTable == [c \in AsrtCases |-> AsrtView(AsrtProofs[c])] @@ <<>>

\* what the extractors find in the client data of a proof
Parsed(client_data) ==
    [challenge |-> find_challenge_from_client_data(client_data),
     authority |-> find_authority_id_from_client_data(client_data)]

AttParsed == [c \in AttCases |-> Parsed(AttProofs[c].client_data)] @@ <<>>

AsrtParsed == [c \in AsrtCases |-> Parsed(AsrtProofs[c].client_data)] @@ <<>>

\* every credential a registration can store
Credentials == {AttTable[c].device : c \in AttCases}

VerifyTable ==
    [p \in Credentials \X AsrtCases |->
        Credential_verify(p[1], AsrtProofs[p[2]])]
    @@ <<>>

\* the device id of the credential that authenticator k makes
DeviceIds == [k \in PrivateKeys |-> blake2_256(credential_id(k))] @@ <<>>

DeviceIdOf(k) == DeviceIds[k]

\* the challenge the challenger generates in each context
Challenges == [ctx \in Contexts |-> generate(ctx)] @@ <<>>

(***************************************************************************)
(* The host: it accepts a proof when four checks pass, made in this order  *)
(* and stopped at the first that fails.                                    *)
(***************************************************************************)
\* Challenger::check_challenge(cx, challenge)
ChallengeMatches(used) == used[2] = Challenges[used[1]]

AuthorityMatches(authority) == authority = HostAuthority

Known(device_id) == \E d \in devices : d.device_id = device_id

Stored(device_id) == CHOOSE d \in devices : d.device_id = device_id

\* the first check of a registration that fails, or "Accepted"; a device is
\* registered once (trust on first use)
RegisterStep(view) ==
    IF ~view.valid THEN "SignatureValid"
    ELSE IF ~ChallengeMatches(view.used) THEN "ChallengeMatches"
    ELSE IF ~AuthorityMatches(view.authority) THEN "AuthorityMatches"
    ELSE IF Known(view.device_id) THEN "IdentityKnown"
    ELSE "Accepted"

\* the first check of an authentication that fails, or "Accepted"; the
\* signature is verified with the credential stored for the device
AuthenticateStep(device_id, view, c) ==
    IF ~(view.valid /\ (Known(device_id) => VerifyTable[<<Stored(device_id), c>>]))
    THEN "SignatureValid"
    ELSE IF ~ChallengeMatches(view.used) THEN "ChallengeMatches"
    ELSE IF ~AuthorityMatches(view.authority) THEN "AuthorityMatches"
    ELSE IF ~Known(device_id) THEN "IdentityKnown"
    ELSE "Accepted"

\* the record of a call that stopped at step; known tells whether the
\* device was registered when the call was made
Outcome(op, c, device_id, step, error) ==
    [op |-> op, case |-> c, device_id |-> device_id,
     known |-> Known(device_id), step |-> step,
     result |-> IF step = "Accepted" THEN "Ok" ELSE error]

\* the set with x added when the call is accepted
Insert(set, x, step) == IF step = "Accepted" THEN set \cup {x} ELSE set

RegisterWith(c, view, step) ==
    /\ call' = Outcome("register", c, view.device_id, step,
                       "DeviceAttestationInvalid")
    /\ devices' = Insert(devices, view.device, step)

\* Pass::register(origin, user, attestation)
Register(c) ==
    /\ c.ctx = block
    /\ RegisterWith(c, AttTable[c], RegisterStep(AttTable[c]))
    /\ UNCHANGED <<vcall, block, sessions, xcall>>

AuthenticateWith(c, device_id, step) ==
    /\ call' = Outcome("authenticate", c, device_id, step, "CredentialInvalid")
    /\ sessions' = Insert(sessions, device_id, step)

\* Pass::authenticate(origin, device_id, credential, duration)
Authenticate(d, c) ==
    /\ c.ctx = block
    /\ d = c.k \/ c.kind = "valid"
    /\ AuthenticateWith(c, DeviceIdOf(d),
                        AuthenticateStep(DeviceIdOf(d), AsrtTable[c], c))
    /\ UNCHANGED <<vcall, block, devices, xcall>>

\* System::set_block_number(block + 1)
AdvanceBlock ==
    /\ block < MaxBlock
    /\ block' = block + 1
    /\ UNCHANGED <<vcall, devices, sessions, call, xcall>>

Init ==
    /\ vcall = VInput(<<>>, <<>>, <<>>, <<>>, 0)
    /\ block = 1
    /\ devices = {}
    /\ sessions = {}
    /\ call = NoCall
    /\ xcall = NoExtract

Next ==
    \/ \E c \in AttCases : Register(c)
    \/ \E d \in PrivateKeys, c \in AsrtCases : Authenticate(d, c)
    \/ AdvanceBlock

Spec == Init /\ [][Next]_vars

(***************************************************************************)
(* The extractors on their own.  A client data is a flat JSON object with  *)
(* the members type, challenge and origin in some order, for a challenge   *)
(* value of some length and an origin, whole or with one defect; the       *)
(* extractors are applied to its bytes.                                    *)
(***************************************************************************)
\* "https://rpid.example.com"
OriginRpid ==
    <<104, 116, 116, 112, 115, 58, 47, 47, 114, 112, 105, 100, 46, 101,
      120, 97, 109, 112, 108, 101, 46, 99, 111, 109>>

\* the origins: those of the test client, the one of the example, one whose
\* host holds the word challenge ("https://challenge.example.com"), and one
\* whose first label has 36 characters
\* ("https://abcdefghijklmnopqrstuvwxyz0123456789.example.com")
Origins ==
    {OriginPassWeb, OriginSvc, OriginRpid,
     <<104, 116, 116, 112, 115, 58, 47, 47, 99, 104, 97, 108, 108, 101,
       110, 103, 101, 46, 101, 120, 97, 109, 112, 108, 101, 46, 99, 111,
       109>>,
     <<104, 116, 116, 112, 115, 58, 47, 47, 97, 98, 99, 100, 101, 102, 103,
       104, 105, 106, 107, 108, 109, 110, 111, 112, 113, 114, 115, 116,
       117, 118, 119, 120, 121, 122, 48, 49, 50, 51, 52, 53, 54, 55, 56,
       57, 46, 101, 120, 97, 109, 112, 108, 101, 46, 99, 111, 109>>}

\* the values put in the challenge member: the challenges of the
\* Challenger, the challenge of zero bytes, the one of 0xFF bytes (all '_'
\* in base64url), the one of 0xFB 0xEF 0xBE (all '-'); and values of 0, 1,
\* 2, 31, 33 and 48 bytes, none of them zero
ChallengeValues ==
    {generate(ctx) : ctx \in Contexts}
    \cup {Zeros(FixedLen), [i \in 1..FixedLen |-> 255],
          [i \in 1..FixedLen |-> IF i % 3 = 1 THEN 251
                                 ELSE IF i % 3 = 2 THEN 239 ELSE 190]}
    \cup {[i \in 1..n |-> 1 + ((generate(1) \o generate(2))[i] % 255)] :
             n \in {0, 1, 2, 31, 33, 48}}

\* the orders of the members: the one of the test client (type, challenge,
\* origin, crossOrigin), the one of the verifier's tests (challenge, origin,
\* type), one with the origin last, two with the origin first, and one
\* that starts with a member whose value holds commas and the word
\* challenge, and has a space before the challenge value:
\* {"hint":"a,challenge,b","challenge": "<value>","origin":"<origin>"}
Orders == {"client", "cot", "tco", "oct", "otc", "hco"}

\* the client data of an order, a challenge value and an origin; a member is
\* "key":"value"
Object(order, challenge, origin) ==
    LET t == <<34, 116, 121, 112, 101, 34, 58, 34>> \o TypeGet \o <<34>>
        c == <<34>> \o KeyChallenge \o <<34, 58, 34>>
                \o base64_encode(challenge) \o <<34>>
        o == <<34>> \o KeyOrigin \o <<34, 58, 34>> \o origin \o <<34>>
    IN CASE order = "client" -> ClientDataJson(TypeGet, challenge, origin)
         [] order = "cot" -> <<123>> \o c \o <<44>> \o o \o <<44>> \o t \o <<125>>
         [] order = "tco" -> <<123>> \o t \o <<44>> \o c \o <<44>> \o o \o <<125>>
         [] order = "oct" -> <<123>> \o o \o <<44>> \o c \o <<44>> \o t \o <<125>>
         [] order = "otc" -> <<123>> \o o \o <<44>> \o t \o <<44>> \o c \o <<125>>
         [] order = "ct" -> <<123>> \o c \o <<44>> \o t \o <<125>>
         [] order = "hco" ->
               <<123, 34, 104, 105, 110, 116, 34, 58, 34, 97, 44>>
               \o KeyChallenge \o <<44, 98, 34, 44, 34>> \o KeyChallenge
               \o <<34, 58, 32, 34>> \o base64_encode(challenge)
               \o <<34, 44>> \o o \o <<125>>

\* The inputs: every whole client data; the client data of the test client
\* cut after at bytes, for every at; the same with 0xFF in place of one
\* byte; a client data whose challenge key is misspelt; one without origin;
\* one whose challenge is "+/+/" or "AAAA=", which are no base64url; the
\* empty one; and those whose origin is a host of one label, an IP address,
\* a text that is no URL, a URL without a host.
XInputs ==
    {[order |-> o, challenge |-> c, origin |-> g, defect |-> "none", at |-> 0] :
        o \in Orders, c \in ChallengeValues, g \in Origins}
    \cup {[order |-> "client", challenge |-> generate(1),
           origin |-> OriginPassWeb, defect |-> d, at |-> at] :
             d \in {"cut", "non_utf8"},
             at \in 1..Len(Object("client", generate(1), OriginPassWeb))}
    \cup {[order |-> "client", challenge |-> generate(ctx),
           origin |-> OriginPassWeb, defect |-> "no_challenge", at |-> 0] :
             ctx \in Contexts}
    \cup {[order |-> "ct", challenge |-> generate(ctx), origin |-> <<>>,
           defect |-> "no_origin", at |-> 0] : ctx \in Contexts}
    \cup {[order |-> o, challenge |-> c, origin |-> OriginPassWeb,
           defect |-> "bad_base64", at |-> 0] :
             o \in Orders,
             c \in {<<43, 47, 43, 47>>, <<65, 65, 65, 65, 61>>}}
    \cup {[order |-> "client", challenge |-> <<>>, origin |-> <<>>,
           defect |-> "empty", at |-> 0]}
    \cup {[order |-> o, challenge |-> generate(1), origin |-> g,
           defect |-> "bad_origin", at |-> 0] :
             o \in Orders,
             g \in {
               \* "https://localhost"
               <<104, 116, 116, 112, 115, 58, 47, 47, 108, 111, 99, 97,
                 108, 104, 111, 115, 116>>,
               \* "http://localhost:8080"
               <<104, 116, 116, 112, 58, 47, 47, 108, 111, 99, 97, 108,
                 104, 111, 115, 116, 58, 56, 48, 56, 48>>,
               \* "https://127.0.0.1"
               <<104, 116, 116, 112, 115, 58, 47, 47, 49, 50, 55, 46, 48,
                 46, 48, 46, 49>>,
               \* "https://192.168.0.1:8443"
               <<104, 116, 116, 112, 115, 58, 47, 47, 49, 57, 50, 46, 49,
                 54, 56, 46, 48, 46, 49, 58, 56, 52, 52, 51>>,
               \* "not a url"
               <<110, 111, 116, 32, 97, 32, 117, 114, 108>>,
               \* "rpid.example.com"
               <<114, 112, 105, 100, 46, 101, 120, 97, 109, 112, 108, 101,
                 46, 99, 111, 109>>,
               \* "android:apk-key-hash:abc"
               <<97, 110, 100, 114, 111, 105, 100, 58, 97, 112, 107, 45,
                 107, 101, 121, 45, 104, 97, 115, 104, 58, 97, 98, 99>>,
               \* "https://"
               <<104, 116, 116, 112, 115, 58, 47, 47>>}}

\* the bytes of an input: the byte at is cut with all that follows it, or
\* is 0xFF
XClientData(in) ==
    CASE in.defect \in {"none", "no_origin", "bad_origin"} ->
            Object(in.order, in.challenge, in.origin)
      [] in.defect = "cut" ->
            Take(Object(in.order, in.challenge, in.origin), in.at - 1)
      [] in.defect = "non_utf8" ->
            SetAt(Object(in.order, in.challenge, in.origin), in.at, 255)
      [] in.defect = "no_challenge" ->
            ClientDataWithKey(TypeGet, NameChellang, in.challenge, in.origin)
      [] in.defect = "bad_base64" ->
            replace(Object(in.order, <<>>, in.origin), <<34, 34>>,
                    <<34>> \o in.challenge \o <<34>>)
      [] in.defect = "empty" -> <<>>

\* find_challenge_from_client_data(client_data)
FindChallenge ==
    /\ "challenge" \notin xcall.asked
    /\ xcall' = [xcall EXCEPT
          !.asked = @ \cup {"challenge"},
          !.challenge = find_challenge_from_client_data(xcall.client_data)]
    /\ UNCHANGED <<vcall, block, devices, sessions, call>>

\* find_authority_id_from_client_data(client_data)
FindAuthority ==
    /\ "authority" \notin xcall.asked
    /\ xcall' = [xcall EXCEPT
          !.asked = @ \cup {"authority"},
          !.authority = find_authority_id_from_client_data(xcall.client_data)]
    /\ UNCHANGED <<vcall, block, devices, sessions, call>>

InitExtract ==
    /\ \E in \in XInputs :
          xcall = [NoExtract EXCEPT !.input = in,
                                    !.client_data = XClientData(in)]
    /\ vcall = VInput(<<>>, <<>>, <<>>, <<>>, 0)
    /\ block = 1
    /\ devices = {}
    /\ sessions = {}
    /\ call = NoCall

SpecExtract == InitExtract /\ [][FindChallenge \/ FindAuthority]_vars

\* C1: a call with the DER signature of authenticator_data || SHA-256(
\* client_data) under the matching DER public key returns Ok(()), and the
\* message verified is the authenticator data followed by the 32-byte hash,
\* nothing between them and nothing before.
C1_ValidSignatureVerifies ==
    vcall.tampered = "none" /\ vcall.result # "none" =>
        /\ vcall.result = "Ok"
        /\ vcall.message =
               vcall.authenticator_data \o Sha256_digest(vcall.client_data)
        /\ Len(vcall.message) = Len(vcall.authenticator_data) + 32

C1_Witness ==
    /\ vcall.tampered = "none"
    /\ vcall.result = "Ok"
    /\ vcall.authenticator_data = ExampleAuthData
    /\ vcall.client_data = ExampleClientData

\* C2: from an accepted call, changing one byte of one of the four inputs
\* makes webauthn_verify return an error.
C2_NoFalseAccepts ==
    vcall.tampered # "none" => vcall.result # "Ok"

C2_Witness ==
    /\ vcall.tampered = "public_key"
    /\ vcall.result = "ExtractPublicKey"

(***************************************************************************)
(* The signature check of the envelopes.                                   *)
(***************************************************************************)
\* SignatureVerifier.verify over the fields of an attestation, which carries
\* no signature: whether the signature some authenticator makes over
\* authenticator_data || SHA-256(client_data) verifies under the public key
\* the attestation carries
VerifiesUnderOwnKey(att) ==
    \E k \in PrivateKeys :
        webauthn_verify(att.authenticator_data, att.client_data,
                        to_der(sign(k, att.authenticator_data
                                       \o Sha256_digest(att.client_data))),
                        att.public_key) = "Ok"

AttVerifies == [c \in AttCases |-> VerifiesUnderOwnKey(AttProofs[c])] @@ <<>>

\* C3: Attestation.is_valid() is true if and only if the signature verifier
\* succeeds over the attestation's authenticator_data and client_data under
\* the public key it carries; an attestation that does not verify under its
\* own public key has is_valid() false.
C3_IsValidIffVerifies ==
    call.op = "register" =>
        (AttTable[call.case].valid <=> AttVerifies[call.case])

\* the cases whose signature bytes were changed after signing
TamperedKinds == {"whoops", "flipped", "flipped_svc"}

C6_MetaAgreesWithBytes ==
    /\ call.op = "register" /\ call.result = "Ok" =>
          AttProofs[call.case].meta.authority_id
              = unwrap_or_default(AttParsed[call.case].authority)
    /\ call.op = "authenticate" /\ call.result = "Ok" =>
          AsrtProofs[call.case].meta.authority_id
              = unwrap_or_default(AsrtParsed[call.case].authority)

\* the cases whose client data holds no challenge that can be extracted
NoChallengeKinds == {"renamed", "malformed", "no_challenge"}

\* C7: when the challenge cannot be extracted from client_data (the key is
\* absent or the value malformed), used_challenge() returns the default
\* all-zero challenge, which is the expected challenge of no context, so the
\* proof is rejected; an attestation whose "challenge" key is renamed is
\* rejected by register with DeviceAttestationInvalid.
C7_FailClosedChallenge ==
    /\ \A ctx \in Contexts : Challenges[ctx] # Default
    /\ call.op = "register" =>
          \A att \in {AttProofs[call.case]} :
            /\ call.case.kind \in NoChallengeKinds
                  <=> ~AttParsed[call.case].challenge.some
            /\ call.case.kind \in NoChallengeKinds =>
                  /\ AttTable[call.case].used = <<att.meta.context, Default>>
                  /\ call.step = "ChallengeMatches"
                  /\ call.result = "DeviceAttestationInvalid"
    /\ call.op = "authenticate" =>
          \A asrt \in {AsrtProofs[call.case]} :
            /\ call.case.kind \in NoChallengeKinds
                  <=> ~AsrtParsed[call.case].challenge.some
            /\ call.case.kind \in NoChallengeKinds =>
                  /\ AsrtTable[call.case].used = <<asrt.meta.context, Default>>
                  /\ call.step \in {"SignatureValid", "ChallengeMatches"}
                  /\ call.result = "CredentialInvalid"

\* registration_fails_if_attestation_is_invalid
C7_Witness ==
    /\ call.op = "register"
    /\ call.case.kind = "renamed"
    /\ AttTable[call.case].used[2] = Default
    /\ call.result = "DeviceAttestationInvalid"

C9_RegisterThenAuthenticate ==
    /\ call.op = "register" /\ call.case.kind = "valid" /\ ~call.known =>
          /\ call.result = "Ok"
          /\ Device_from(AttProofs[call.case]) \in devices
    /\ call.op = "authenticate" /\ call.case.kind = "valid"
          /\ call.device_id = AttTable[call.case].device_id
          /\ AttTable[call.case].device \in devices =>
          /\ call.result = "Ok"
          /\ call.device_id \in sessions

\* authentication_works_if_credentials_are_valid
C9_Witness ==
    /\ call.op = "authenticate"
    /\ call.case.kind = "valid"
    /\ call.device_id = AttTable[call.case].device_id
    /\ AttTable[call.case].device \in devices
    /\ call.result = "Ok"

\* the cases of register and of authenticate that the tests reject
InvalidKinds == NoChallengeKinds \cup TamperedKinds

\* C10: a register call that is rejected and an authenticate call that is
\* rejected leave the host state as it was: no device is registered and no
\* session is created; the calls with an invalid attestation and with a
\* tampered assertion are such calls.
C10_RejectedCallsChangeNothing ==
    [][block' = block =>
        /\ call'.result \in {"DeviceAttestationInvalid", "CredentialInvalid"} =>
              devices' = devices /\ sessions' = sessions
        /\ call'.case.kind \in InvalidKinds =>
              /\ call'.result \in {"DeviceAttestationInvalid",
                                    "CredentialInvalid"}
              /\ devices' = devices /\ sessions' = sessions]_vars

\* authentication_fails_if_credentials_are_invalid: the device is
\* registered, the call is rejected, no session is open
C10_Witness ==
    /\ call.op = "authenticate"
    /\ call.case.kind = "whoops"
    /\ call.known
    /\ call.result = "CredentialInvalid"
    /\ sessions = {}

\* C11: webauthn_verify reports each failure with its own error kind:
\* ExtractPublicKey when the public key bytes are no DER P-256 key,
\* ParseSignature when the key is one and the signature bytes are no DER
\* ECDSA signature, VerifySignature when both are well-formed and the
\* signature does not validate; Ok in no other case than a signature that
\* validates.
C11_ErrorKinds ==
    vcall.result # "none" =>
        /\ \A key \in {from_public_key_der(vcall.public_key)},
              sig \in {DerSignature_try_from(vcall.signature)} :
              \A good \in {key.ok /\ sig.ok
                              /\ ecdsa_verify(key,
                                     vcall.authenticator_data
                                         \o Sha256_digest(vcall.client_data),
                                     sig)} :
                /\ vcall.result = "ExtractPublicKey" <=> ~key.ok
                /\ vcall.result = "ParseSignature" <=> key.ok /\ ~sig.ok
                /\ vcall.result = "VerifySignature"
                      <=> key.ok /\ sig.ok /\ ~good
                /\ vcall.result = "Ok" <=> good
        /\ vcall.tampered \in {"authenticator_data", "client_data"} =>
              vcall.result = "VerifySignature"
        /\ vcall.tampered = "public_key" =>
              vcall.result \in {"ExtractPublicKey", "VerifySignature"}
        /\ vcall.tampered = "signature" =>
              vcall.result \in {"ParseSignature", "VerifySignature"}

\* a signature whose DER bytes no longer parse, under the key that is valid
C11_Witness ==
    /\ vcall.tampered = "signature"
    /\ from_public_key_der(vcall.public_key).ok
    /\ vcall.result = "ParseSignature"

ChallengeInPlace(in) ==
    \/ in.order \in {"client", "cot", "tco"}
    \/ in.order = "oct" /\ ~contains(in.origin, KeyChallenge)

\* the first label of the domain of one of Origins, which all start with
\* "https://"
FirstLabel(origin) == split_once(Drop(origin, 8), 46).v[1]

C14_AuthorityOfRpid ==
    /\ "authority" \in xcall.asked
    /\ xcall.input.defect = "none"
    /\ xcall.input.origin = OriginRpid
    => xcall.authority = Some(<<114, 112, 105, 100>> \o Zeros(FixedLen - 4))

C14_Witness ==
    /\ "authority" \in xcall.asked
    /\ xcall.input.defect = "none"
    /\ xcall.input.origin = OriginRpid
    /\ xcall.authority.some
    /\ xcall.authority.v[4] = 100
    /\ xcall.authority.v[5] = 0

\* C15: for every malformed client data (cut short, without the challenge or
\* the origin key, with bytes that are no UTF-8, empty) find_challenge and
\* find_authority return None.
C15_MalformedIsNone ==
    /\ xcall.input.defect \in {"cut", "non_utf8", "empty"} =>
          ~xcall.challenge.some /\ ~xcall.authority.some
    /\ xcall.input.defect = "no_challenge" => ~xcall.challenge.some
    /\ xcall.input.defect = "no_origin" => ~xcall.authority.some

C17_CorrectForFlatObjects ==
    xcall.input.defect = "none" /\ Len(xcall.input.challenge) = FixedLen =>
        /\ "challenge" \in xcall.asked =>
              xcall.challenge = Some(xcall.input.challenge)
        /\ "authority" \in xcall.asked =>
              xcall.authority
                  = Some(decode_trailing_zero(FirstLabel(xcall.input.origin)))

C19_AuthorityFromClientData ==
    /\ call.op = "register" =>
          AttTable[call.case].authority
              = unwrap_or_default(AttParsed[call.case].authority)
    /\ call.op = "authenticate" =>
          AsrtTable[call.case].authority
              = unwrap_or_default(AsrtParsed[call.case].authority)

\* C20: the fixed-size decoding is tolerant in both directions: of a value
\* longer than 32 bytes it keeps the first 32, and a shorter one (the empty
\* one too) it follows with zero bytes up to 32, for the Challenge and for
\* the AuthorityId.
C20_TolerantDecode ==
    xcall.input.defect = "none" =>
        /\ "challenge" \in xcall.asked /\ ChallengeInPlace(xcall.input) =>
              /\ xcall.challenge.some
              /\ \A c \in {xcall.input.challenge} :
                    xcall.challenge.v
                        = [i \in 1..FixedLen |->
                              IF i <= Len(c) THEN c[i] ELSE 0]
        /\ "authority" \in xcall.asked =>
              /\ xcall.authority.some
              /\ \A label \in {FirstLabel(xcall.input.origin)} :
                    xcall.authority.v
                        = [i \in 1..FixedLen |->
                              IF i <= Len(label) THEN label[i] ELSE 0]

\* a challenge value of 48 bytes and a label of 36 characters, both cut
C20_Witness ==
    /\ xcall.asked = {"challenge", "authority"}
    /\ xcall.input.defect = "none"
    /\ Len(xcall.input.challenge) = 48
    /\ Len(FirstLabel(xcall.input.origin)) = 36
    /\ xcall.challenge.some
    /\ xcall.authority.some

\* C22: webauthn_verify decodes the public key before the signature: when
\* neither the public key bytes nor the signature bytes decode the result is
\* ExtractPublicKey, and ParseSignature and VerifySignature are returned only
\* for a public key that decoded.
C22_KeyBeforeSignature ==
    vcall.result # "none" =>
        \A key_ok \in {from_public_key_der(vcall.public_key).ok},
           sig_ok \in {DerSignature_try_from(vcall.signature).ok} :
            /\ ~key_ok /\ ~sig_ok => vcall.result = "ExtractPublicKey"
            /\ vcall.result \in {"ParseSignature", "VerifySignature"} => key_ok

\* a signature without its tag, under a key whose bytes do not decode
C22_Witness ==
    /\ vcall.tampered = "both"
    /\ ~from_public_key_der(vcall.public_key).ok
    /\ ~DerSignature_try_from(vcall.signature).ok
    /\ vcall.result = "ExtractPublicKey"

\* C21: the scanner rejects input that is no UTF-8, splits the text at ',',
\* takes the first segment that holds the key and a ':' (a segment with the
\* key and no ':' is passed over), takes what follows the first ':' of it,
\* strips spaces and double quotes from its ends and nothing else (a closing
\* brace stays), applies the map, and answers None when no segment qualifies
\* or the map fails, without looking at the segments after the one taken.
C21_ScannerSteps ==
    "challenge" \in xcall.asked =>
        /\ ~from_utf8_ok(xcall.client_data) => ~xcall.challenge.some
        /\ xcall.challenge.some =>
              \E a \in SegmentStarts(xcall.client_data) :
                 /\ contains(Segment(xcall.client_data, a), KeyChallenge)
                 /\ contains(Segment(xcall.client_data, a), <<58>>)
        /\ xcall.input.defect \in {"no_challenge", "bad_base64"} =>
              ~xcall.challenge.some
        /\ xcall.input.defect = "none" =>
              /\ xcall.input.order = "hco" /\ Len(xcall.input.challenge) = FixedLen
                    => xcall.challenge = Some(xcall.input.challenge)
              /\ xcall.input.order = "otc" => ~xcall.challenge.some
              /\ xcall.input.order = "oct"
                    => (xcall.challenge.some
                           <=> ~contains(xcall.input.origin, KeyChallenge))

\* the segment "challenge" of the hint is passed over, and the space before
\* the value is stripped
C21_Witness ==
    /\ "challenge" \in xcall.asked
    /\ xcall.input.defect = "none"
    /\ xcall.input.order = "hco"
    /\ xcall.input.challenge = generate(1)
    /\ xcall.challenge = Some(generate(1))

\* C23: find_authority_id_from_client_data returns None, and
\* Assertion::authority the all-zero AuthorityId, when the host of the origin
\* has one label (localhost), is an IP address, or the origin is no URL with
\* a host; it returns Some only for a domain of two labels or more.
C23_NoAuthorityWithoutDomain ==
    "authority" \in xcall.asked =>
        /\ xcall.input.defect = "bad_origin" =>
              /\ ~xcall.authority.some
              /\ Assertion_authority([client_data |-> xcall.client_data])
                    = Zeros(FixedLen)
        /\ xcall.input.defect = "none" => xcall.authority.some

\* C24: the Device made from an Attestation holds the attestation's own
\* values: its device_id is attestation.device_id() and its public_key is
\* attestation.public_key; so the device a registration stores carries the
\* key supplied with it, and an assertion is accepted for a device only when
\* it verifies under that key, which is the key of the authenticator that
\* signed it.
C24_DeviceHoldsAttestationValues ==
    /\ \A c \in AttCases :
          AttTable[c].device = [device_id |-> AttProofs[c].meta.device_id,
                                public_key |-> AttProofs[c].public_key]
    /\ call.op = "register" /\ call.result = "Ok" =>
          /\ \E d \in devices : d.device_id = call.device_id
          /\ \A d \in devices :
                d.device_id = call.device_id =>
                    d.public_key = AttProofs[call.case].public_key
    /\ call.op = "authenticate" /\ call.result = "Ok" =>
          \A d \in devices :
              d.device_id = call.device_id =>
                  /\ \E c \in AttCases :
                        /\ AttProofs[c].meta.device_id = d.device_id
                        /\ AttProofs[c].public_key = d.public_key
                  /\ VerifyTable[<<d, call.case>>]
                  /\ d.public_key = public_key_der(call.case.k)

\* the second authenticator registers and then authenticates: its key is the
\* one stored and the one its assertion verifies under
C24_Witness ==
    /\ call.op = "authenticate"
    /\ call.result = "Ok"
    /\ call.case.k = 2
    /\ \E d \in devices :
          /\ d.device_id = call.device_id
          /\ d.public_key = public_key_der(2)

====
